---- MODULE Spec2Model ----
(***************************************************************************)
(* State-machine model of src/insiders.py: the sponsorship fetch           *)
(* (get_sponsors), the eligibility computation and the per-team            *)
(* reconciliation (get_members, get_invited, revoke, grant) of main, and   *)
(* the two report files.  The GitHub provider (sponsorship listing, team   *)
(* member and invitation listings, HTTP status of every call) is the       *)
(* environment: its listings are state, its status codes are inputs.       *)
(***************************************************************************)
EXTENDS Integers, Sequences, FiniteSets, TLC

VARIABLES
    \* ---- module-level configuration (insiders.py:14-23), fixed during a behaviour
    INSIDERS_TEAMS,     \* sequence of team targets
    PRIVILEGED_USERS,   \* set of handles
    ORG_USERS,          \* function: org handle -> set of handles (a dict)
    \* ---- provider state
    sponsorships,       \* sequence of sponsorship nodes, in listing order
    teamMembers,        \* team -> sequence of confirmed member handles
    teamInvited,        \* team -> sequence of invited handles
    \* ---- program state
    pc,                 \* position in main
    cursor,             \* get_sponsors: cursor literal of the next request
    sponsors,           \* get_sponsors / main: list of Sponsor records
    eligible_orgs,      \* main, line 199
    eligible_users,     \* main, lines 200-203
    ti,                 \* main: index in INSIDERS_TEAMS of the current target
    page,               \* get_members: page counter
    members_acc,        \* get_members: the local set `members`
    got_members,        \* main: value returned by get_members
    members,            \* main: `members`, the snapshot of line 206
    revoke_iter,        \* main: handles the loop of line 208 has yet to visit
    grant_iter,         \* main: handles the loop of line 212 has yet to visit
    raised,             \* "none", or the call whose exception ended the run
    files,              \* the files written so far: name -> content
    \* ---- observation of the calls issued (history)
    fetched,            \* member handles seen on any page of the current get_members
    revokeCalls,        \* handles revoke was called on, current target
    grantCalls,         \* handles grant was called on, current target
    failedCalls,        \* handles whose grant/revoke got a non-success response, current target
    run,                \* number of the current run
    prev,               \* what the previous run left: see NextRun
    log                 \* the requests and file writes of the current run, in order

cfgvars  == <<INSIDERS_TEAMS, PRIVILEGED_USERS, ORG_USERS>>
envvars  == <<sponsorships, teamMembers, teamInvited>>
progvars == <<pc, cursor, sponsors, eligible_orgs, eligible_users, ti, page,
              members_acc, got_members, members, revoke_iter, grant_iter,
              raised, files>>
setvars  == <<fetched, revokeCalls, grantCalls, failedCalls, run, prev>>
obsvars  == <<setvars, log>>
vars     == <<cfgvars, envvars, progvars, obsvars>>

----------------------------------------------------------------------------
\* Program constants and model bounds

\* insiders.py:13
MIN_AMOUNT == 4

\* `first: 100` (line 29) and per_page=100 (lines 140, 146, 155), scaled down
PER_PAGE == 2

\* longest sponsorship listing of the provider
MaxSponsors == 3

\* number of runs of main in one behaviour
MaxRuns == 2

Min(a, b) == IF a < b THEN a ELSE b

----------------------------------------------------------------------------
\* Provider data

\* str.lower() on the discriminator strings the provider sends
Lower(s) ==
    CASE s = "Organization" -> "organization"
      [] s = "User"         -> "user"
      [] s = "PRIVATE"      -> "private"
      [] s = "PUBLIC"       -> "public"
      [] OTHER              -> s

Node(login, typename, amount, oneTime, privacy) ==
    [login |-> login, typename |-> typename, amount |-> amount,
     isOneTimePayment |-> oneTime, privacyLevel |-> privacy]

Range(q) == {q[i] : i \in 1..Len(q)}

\* the handles of S as the provider lists them (a fixed listing order)
ListingOrder == <<"acme", "alice", "bob", "carol", "zed">>
Listing(S) == SelectSeq(ListingOrder, LAMBDA h : h \in S)

AllTeams == {"t1", "t2"}

----------------------------------------------------------------------------
\* get_sponsors (lines 87-131)

\* line 90: the literal passed as `after:` on the first request
NullCursor == <<"null">>

\* line 127 leaving the cursor of line 90 in place
QuoteCursor_Stale(endCursor) == <<"null">>

\* line 127: f'"{endCursor}"', the cursor as a GraphQL string literal
QuoteCursor(endCursor) == <<"\"", endCursor, "\"">>

\* provider: position named by the `after:` literal of the query (line 30)
AfterPosition(literal) == IF literal = NullCursor THEN 0 ELSE literal[2]

\* provider: the response to the query of lines 25-60 with `after: literal`;
\* endCursor is the position of the last node returned
SponsorsResponse(listing, literal) ==
    LET from == AfterPosition(literal)
        to   == Min(from + PER_PAGE, Len(listing))
    IN  [nodes       |-> SubSeq(listing, from + 1, to),
         hasNextPage |-> to < Len(listing),
         endCursor   |-> to]

\* lines 108-123; image, url and created are carried along unread and left out
MakeSponsor(item) ==
    [account |-> [name |-> item.login,
                  org  |-> Lower(item.typename) = "organization"],
     private |-> Lower(item.privacyLevel) = "private",
     amount  |-> item.amount]

\* lines 103-123 without the test of lines 104-105
RECURSIVE PostProcess_KeepOneTime(_)
PostProcess_KeepOneTime(nodes) ==
    IF nodes = <<>> THEN <<>>
    ELSE <<MakeSponsor(Head(nodes))>> \o PostProcess_KeepOneTime(Tail(nodes))

\* lines 103-123: the Sponsor records of one page, one-time payments skipped
RECURSIVE PostProcess(_)
PostProcess(nodes) ==
    IF nodes = <<>> THEN <<>>
    ELSE IF Head(nodes).isOneTimePayment
         THEN PostProcess(Tail(nodes))
         ELSE <<MakeSponsor(Head(nodes))>> \o PostProcess(Tail(nodes))

\* response.raise_for_status() of a fetch (lines 99, 143, 158)
FetchStatuses == {"ok", "error"}

\* one request (or file write) as the log records it
Request(op, team, arg) == [op |-> op, team |-> team, arg |-> arg]

Raise(who) ==
    /\ pc' = "raised"
    /\ raised' = who

\* lines 91-129 with a failed request ending the loop instead of raising
GetSponsorsPage_BreakOnError ==
    /\ pc = "get_sponsors"
    /\ log' = Append(log, Request("get_sponsors", "", cursor))
    /\ \E status \in FetchStatuses :
         LET data == SponsorsResponse(sponsorships, cursor) IN
         IF status = "error"
         THEN /\ pc' = "eligible"
              /\ UNCHANGED <<cursor, sponsors, raised>>
         ELSE /\ sponsors' = sponsors \o PostProcess(data.nodes)
              /\ IF data.hasNextPage
                 THEN /\ cursor' = QuoteCursor(data.endCursor)
                      /\ pc' = "get_sponsors"
                 ELSE /\ cursor' = cursor
                      /\ pc' = "eligible"
              /\ raised' = raised
    /\ UNCHANGED <<cfgvars, envvars, setvars, eligible_orgs, eligible_users, ti,
                   page, members_acc, got_members, members, revoke_iter,
                   grant_iter, files>>

\* one iteration of the loop of lines 91-129
GetSponsorsPage ==
    /\ pc = "get_sponsors"
    /\ log' = Append(log, Request("get_sponsors", "", cursor))
    /\ \E status \in FetchStatuses :
         IF status = "error"
         THEN /\ Raise("get_sponsors")
              /\ UNCHANGED <<cursor, sponsors>>
         ELSE LET data == SponsorsResponse(sponsorships, cursor) IN
              /\ sponsors' = sponsors \o PostProcess(data.nodes)
              /\ IF data.hasNextPage
                 THEN /\ cursor' = QuoteCursor(data.endCursor)
                      /\ pc' = "get_sponsors"
                 ELSE /\ cursor' = cursor
                      /\ pc' = "eligible"
              /\ raised' = raised
    /\ UNCHANGED <<cfgvars, envvars, setvars, eligible_orgs, eligible_users, ti,
                   page, members_acc, got_members, members, revoke_iter,
                   grant_iter, files>>

----------------------------------------------------------------------------
\* main, lines 199-203: the eligibility sets

\* line 199
EligibleOrgs(sps) ==
    {sps[i].account.name : i \in {j \in 1..Len(sps) :
        sps[j].account.org /\ sps[j].amount >= MIN_AMOUNT}}

\* line 200 without `not sponsor.account.org`
EligibleUsers_AnyAccount(sps) ==
    {sps[i].account.name : i \in {j \in 1..Len(sps) : sps[j].amount >= MIN_AMOUNT}}

\* line 200 with `>` for `>=`
EligibleUsers_StrictThreshold(sps) ==
    {sps[i].account.name : i \in {j \in 1..Len(sps) :
        ~sps[j].account.org /\ sps[j].amount > MIN_AMOUNT}}

\* line 200
EligibleUsers(sps) ==
    {sps[i].account.name : i \in {j \in 1..Len(sps) :
        ~sps[j].account.org /\ sps[j].amount >= MIN_AMOUNT}}

\* line 203 with the default returned for every org
OrgUsersGet_AlwaysDefault(d, org) == {}

\* ORG_USERS.get(org, set())
OrgUsersGet(d, org) == IF org \in DOMAIN d THEN d[org] ELSE {}

\* lines 202-203 adding the eligible orgs themselves as well
OrgExpansion_WithOrgs(orgs, d) ==
    orgs \cup UNION {IF org \in DOMAIN d THEN d[org] ELSE {} : org \in orgs}

\* lines 202-203: the handles the loop adds to eligible_users
OrgExpansion(orgs, d) == UNION {OrgUsersGet(d, org) : org \in orgs}

\* lines 199-200
EligibleSets ==
    /\ pc = "eligible"
    /\ eligible_orgs' = EligibleOrgs(sponsors)
    /\ eligible_users' = EligibleUsers(sponsors)
    /\ pc' = "privileged"
    /\ UNCHANGED <<cfgvars, envvars, obsvars, cursor, sponsors, ti, page,
                   members_acc, got_members, members, revoke_iter, grant_iter,
                   raised, files>>

\* line 201 left out
AddPrivileged_Skipped ==
    /\ pc = "privileged"
    /\ pc' = "org_users"
    /\ UNCHANGED <<cfgvars, envvars, obsvars, cursor, sponsors, eligible_orgs,
                   eligible_users, ti, page, members_acc, got_members, members,
                   revoke_iter, grant_iter, raised, files>>

\* line 201
AddPrivileged ==
    /\ pc = "privileged"
    /\ eligible_users' = eligible_users \cup PRIVILEGED_USERS
    /\ pc' = "org_users"
    /\ UNCHANGED <<cfgvars, envvars, obsvars, cursor, sponsors, eligible_orgs,
                   ti, page, members_acc, got_members, members, revoke_iter,
                   grant_iter, raised, files>>

\* lines 202-203
AddOrgUsers ==
    /\ pc = "org_users"
    /\ eligible_users' = eligible_users \cup OrgExpansion(eligible_orgs, ORG_USERS)
    /\ pc' = "team"
    /\ UNCHANGED <<cfgvars, envvars, obsvars, cursor, sponsors, eligible_orgs,
                   ti, page, members_acc, got_members, members, revoke_iter,
                   grant_iter, raised, files>>

----------------------------------------------------------------------------
\* main, lines 205-206: the membership snapshot of one target

Team == INSIDERS_TEAMS[ti]

\* line 205 with the eligibility set rebuilt from PRIVILEGED_USERS alone for
\* every target after the first
NextTeam_NewEligibility ==
    /\ pc = "team"
    /\ log' = log
    /\ IF ti < Len(INSIDERS_TEAMS)
       THEN /\ ti' = ti + 1
            /\ pc' = "get_members"
            /\ page' = 1
            /\ members_acc' = {}
            /\ fetched' = {}
            /\ revokeCalls' = {}
            /\ grantCalls' = {}
            /\ eligible_users' = IF ti = 0 THEN eligible_users ELSE PRIVILEGED_USERS
       ELSE /\ pc' = "numbers"
            /\ UNCHANGED <<ti, page, members_acc, fetched, revokeCalls, grantCalls,
                           eligible_users>>
    /\ UNCHANGED <<cfgvars, envvars, cursor, sponsors, eligible_orgs,
                   got_members, members, revoke_iter,
                   grant_iter, raised, files, failedCalls, run, prev>>

\* line 205 with the loop left after its first iteration
NextTeam_FirstTargetOnly ==
    /\ pc = "team"
    /\ log' = log
    /\ IF ti < Min(1, Len(INSIDERS_TEAMS))
       THEN /\ ti' = ti + 1
            /\ pc' = "get_members"
            /\ page' = 1
            /\ members_acc' = {}
            /\ fetched' = {}
            /\ revokeCalls' = {}
            /\ grantCalls' = {}
       ELSE /\ pc' = "numbers"
            /\ UNCHANGED <<ti, page, members_acc, fetched, revokeCalls, grantCalls>>
    /\ UNCHANGED <<cfgvars, envvars, cursor, sponsors, eligible_orgs,
                   eligible_users, got_members, members, revoke_iter,
                   grant_iter, raised, files, failedCalls, run, prev>>

\* line 205: the next (org, team) of INSIDERS_TEAMS, or the end of the loop
NextTeam ==
    /\ pc = "team"
    /\ log' = log
    /\ IF ti < Len(INSIDERS_TEAMS)
       THEN /\ ti' = ti + 1
            /\ pc' = "get_members"
            /\ page' = 1
            /\ members_acc' = {}
            /\ fetched' = {}
            /\ revokeCalls' = {}
            /\ grantCalls' = {}
       ELSE /\ pc' = "numbers"
            /\ UNCHANGED <<ti, page, members_acc, fetched, revokeCalls, grantCalls>>
    /\ UNCHANGED <<cfgvars, envvars, cursor, sponsors, eligible_orgs,
                   eligible_users, got_members, members, revoke_iter,
                   grant_iter, raised, files, failedCalls, run, prev>>

\* provider: page `p` of per_page handles of a listing (lines 138-142, 153-157)
ListingPage(listing, p) ==
    SubSeq(listing, (p - 1) * PER_PAGE + 1, Min(p * PER_PAGE, Len(listing)))

\* line 149: the value get_members returns, given the local set `members`
\* (line 145) and the body of the last response
GetMembersReturn(acc, last_response) == Range(last_response)

\* line 146 with `<=` for `<`
IsLastPage_NotLonger(response_data) == Len(response_data) <= PER_PAGE

\* line 146: the page ends the loop
IsLastPage(response_data) == Len(response_data) < PER_PAGE

\* one iteration of the loop of lines 137-148, and the return of line 149
GetMembersPage ==
    /\ pc = "get_members"
    /\ log' = Append(log, Request("get_members", Team, page))
    /\ \E status \in FetchStatuses :
         IF status = "error"
         THEN /\ Raise("get_members")
              /\ UNCHANGED <<page, members_acc, got_members, fetched>>
         ELSE LET response_data == ListingPage(teamMembers[Team], page) IN
              /\ members_acc' = members_acc \cup Range(response_data)
              /\ fetched' = fetched \cup Range(response_data)
              /\ IF IsLastPage(response_data)
                 THEN /\ got_members' = GetMembersReturn(members_acc', response_data)
                      /\ pc' = "get_invited"
                      /\ page' = page
                 ELSE /\ page' = page + 1
                      /\ pc' = "get_members"
                      /\ got_members' = got_members
              /\ raised' = raised
    /\ UNCHANGED <<cfgvars, envvars, cursor, sponsors, eligible_orgs,
                   eligible_users, ti, members, revoke_iter, grant_iter, files,
                   revokeCalls, grantCalls, failedCalls, run, prev>>

\* get_invited paging through the whole invitation listing
GetInvitedReturn_AllPages(listing) == Range(listing)

\* lines 152-159: the handles of the one invitation page requested
GetInvitedReturn(listing) == Range(ListingPage(listing, 1))

\* line 206: get_invited, the union, and the start of the loop of line 208
GetInvited ==
    /\ pc = "get_invited"
    /\ log' = Append(log, Request("get_invited", Team, 1))
    /\ \E status \in FetchStatuses :
         IF status = "error"
         THEN /\ Raise("get_invited")
              /\ UNCHANGED <<members, revoke_iter>>
         ELSE /\ members' = got_members \cup GetInvitedReturn(teamInvited[Team])
              /\ revoke_iter' = members'
              /\ pc' = "revoke"
              /\ raised' = raised
    /\ UNCHANGED <<cfgvars, envvars, setvars, cursor, sponsors, eligible_orgs,
                   eligible_users, ti, page, members_acc, got_members,
                   grant_iter, files>>

----------------------------------------------------------------------------
\* grant and revoke (lines 162-193)

\* The response to a membership PUT or DELETE:
\*   "ok"            a success status;
\*   "error"         a non-success status whose body is empty, or a JSON object
\*                   with "message" and "documentation_url";
\*   "error_no_json" a non-success status whose body is non-empty and is not
\*                   such an object (response.json() or the subscripts of
\*                   lines 173-174 and 190-191 raise inside the handler).
MutationResponses == {"ok", "error", "error_no_json"}

\* whether a call that got `resp` returns to its caller (lines 168-176, 185-193)
MutationReturns(resp) == resp \in {"ok", "error"}

Remove(q, h) == SelectSeq(q, LAMBDA x : x # h)

\* the handles to revoke that the loop of lines 208-210 has not visited yet
ToRevoke == {user \in revoke_iter : user \notin eligible_users}

\* line 213 testing the team's listings as they are now, not the snapshot
ToGrant_Reread ==
    {user \in grant_iter :
        user \notin Range(teamMembers[INSIDERS_TEAMS[ti]])
                      \cup Range(teamInvited[INSIDERS_TEAMS[ti]])}

\* line 212 starting over the whole of eligible_users at every iteration
ToGrant_Restarted == {user \in eligible_users : user \notin members}

\* the handles to grant that the loop of lines 212-214 has not visited yet
ToGrant == {user \in grant_iter : user \notin members}

\* lines 208-210: one call of revoke; the provider deletes the membership,
\* confirmed or pending, on success
RevokeCall ==
    /\ pc = "revoke"
    /\ \E user \in ToRevoke, resp \in MutationResponses :
         /\ revoke_iter' = revoke_iter \ {user}
         /\ revokeCalls' = revokeCalls \cup {user}
         /\ log' = Append(log, Request("revoke", Team, user))
         /\ IF resp = "ok"
            THEN /\ teamMembers' = [teamMembers EXCEPT ![Team] = Remove(@, user)]
                 /\ teamInvited' = [teamInvited EXCEPT ![Team] = Remove(@, user)]
                 /\ failedCalls' = failedCalls
            ELSE /\ UNCHANGED <<teamMembers, teamInvited>>
                 /\ failedCalls' = failedCalls \cup {<<Team, user>>}
         /\ IF MutationReturns(resp)
            THEN UNCHANGED <<pc, raised>>
            ELSE Raise("revoke")
    /\ UNCHANGED <<cfgvars, sponsorships, cursor, sponsors, eligible_orgs,
                   eligible_users, ti, page, members_acc, got_members, members,
                   grant_iter, files, fetched, grantCalls, run, prev>>

\* line 208 exhausted: the loop of line 212 starts
RevokeDone ==
    /\ pc = "revoke"
    /\ ToRevoke = {}
    /\ pc' = "grant"
    /\ revoke_iter' = {}
    /\ grant_iter' = eligible_users
    /\ UNCHANGED <<cfgvars, envvars, obsvars, cursor, sponsors, eligible_orgs,
                   eligible_users, ti, page, members_acc, got_members, members,
                   raised, files>>

\* provider: the membership PUT is an upsert; a new membership is active at
\* once or pending (an invitation)
ProviderAdd(listing, user, present) ==
    IF present THEN listing ELSE Append(listing, user)

\* lines 212-214: one call of grant
GrantCall ==
    /\ pc = "grant"
    /\ \E user \in ToGrant, resp \in MutationResponses, state \in {"active", "pending"} :
         /\ grant_iter' = grant_iter \ {user}
         /\ grantCalls' = grantCalls \cup {user}
         /\ log' = Append(log, Request("grant", Team, user))
         /\ LET present == user \in Range(teamMembers[Team]) \cup Range(teamInvited[Team]) IN
            IF resp = "ok"
            THEN /\ teamMembers' = [teamMembers EXCEPT ![Team] =
                        ProviderAdd(@, user, present \/ state = "pending")]
                 /\ teamInvited' = [teamInvited EXCEPT ![Team] =
                        ProviderAdd(@, user, present \/ state = "active")]
                 /\ failedCalls' = failedCalls
            ELSE /\ UNCHANGED <<teamMembers, teamInvited>>
                 /\ failedCalls' = failedCalls \cup {<<Team, user>>}
         /\ IF MutationReturns(resp)
            THEN UNCHANGED <<pc, raised>>
            ELSE Raise("grant")
    /\ UNCHANGED <<cfgvars, sponsorships, cursor, sponsors, eligible_orgs,
                   eligible_users, ti, page, members_acc, got_members, members,
                   revoke_iter, files, fetched, revokeCalls, run, prev>>

\* line 212 exhausted: back to line 205
GrantDone ==
    /\ pc = "grant"
    /\ ToGrant = {}
    /\ pc' = "team"
    /\ grant_iter' = {}
    /\ UNCHANGED <<cfgvars, envvars, obsvars, cursor, sponsors, eligible_orgs,
                   eligible_users, ti, page, members_acc, got_members, members,
                   revoke_iter, raised, files>>

----------------------------------------------------------------------------
\* main, lines 216-221: the report files

RECURSIVE SumAmounts(_)
SumAmounts(sps) ==
    IF sps = <<>> THEN 0 ELSE Head(sps).amount + SumAmounts(Tail(sps))

\* Account.as_dict (lines 70-76), image and url left out
AsDict(account) == [name |-> account.name, org |-> account.org]

\* line 221 without `if not sponsor.private`
RECURSIVE Roster_All(_)
Roster_All(sps) ==
    IF sps = <<>> THEN <<>>
    ELSE <<AsDict(Head(sps).account)>> \o Roster_All(Tail(sps))

RECURSIVE Roster(_)
Roster(sps) ==
    IF sps = <<>> THEN <<>>
    ELSE IF Head(sps).private
         THEN Roster(Tail(sps))
         ELSE <<AsDict(Head(sps).account)>> \o Roster(Tail(sps))

\* lines 216-219
WriteNumbers ==
    /\ pc = "numbers"
    /\ log' = Append(log, Request("write", "", "numbers.json"))
    /\ files' = [files EXCEPT !["numbers.json"] =
                    <<[total |-> SumAmounts(sponsors), count |-> Len(sponsors)]>>]
    /\ pc' = "roster"
    /\ UNCHANGED <<cfgvars, envvars, setvars, cursor, sponsors, eligible_orgs,
                   eligible_users, ti, page, members_acc, got_members, members,
                   revoke_iter, grant_iter, raised>>

\* lines 220-221
WriteRoster ==
    /\ pc = "roster"
    /\ log' = Append(log, Request("write", "", "sponsors.json"))
    /\ files' = [files EXCEPT !["sponsors.json"] = <<Roster(sponsors)>>]
    /\ pc' = "done"
    /\ UNCHANGED <<cfgvars, envvars, setvars, cursor, sponsors, eligible_orgs,
                   eligible_users, ti, page, members_acc, got_members, members,
                   revoke_iter, grant_iter, raised>>

----------------------------------------------------------------------------
\* The next scheduled run of the script, and what changed at the provider

RemoveAt(q, i) == SubSeq(q, 1, i - 1) \o SubSeq(q, i + 1, Len(q))

\* a file is the sequence of its documents: none while it does not exist, one
\* once it was written (mode "w" replaces the former content)
NoFiles == [name \in {"numbers.json", "sponsors.json"} |-> <<>>]

\* the state of a fresh process at the first line of main
Start ==
    /\ pc = "get_sponsors"
    /\ cursor = NullCursor
    /\ sponsors = <<>>
    /\ eligible_orgs = {}
    /\ eligible_users = {}
    /\ ti = 0
    /\ page = 1
    /\ members_acc = {}
    /\ got_members = {}
    /\ members = {}
    /\ revoke_iter = {}
    /\ grant_iter = {}
    /\ raised = "none"

\* main returned (line 225); before the next run a sponsorship may have been
\* cancelled.  prev records what the finished run computed and whether the
\* provider applied every one of its calls.
NextRun ==
    /\ pc = "done"
    /\ log' = <<>>
    /\ run < MaxRuns
    /\ \E cancelled \in 0..Len(sponsorships) :
         sponsorships' = IF cancelled = 0 THEN sponsorships
                         ELSE RemoveAt(sponsorships, cancelled)
    /\ prev' = [eligible_users |-> eligible_users,
                eligible_orgs  |-> eligible_orgs,
                applied        |-> failedCalls = {},
                files          |-> files]
    /\ run' = run + 1
    /\ pc' = "get_sponsors"
    /\ cursor' = NullCursor
    /\ sponsors' = <<>>
    /\ eligible_orgs' = {}
    /\ eligible_users' = {}
    /\ ti' = 0
    /\ page' = 1
    /\ members_acc' = {}
    /\ got_members' = {}
    /\ members' = {}
    /\ revoke_iter' = {}
    /\ grant_iter' = {}
    /\ raised' = "none"
    /\ fetched' = {}
    /\ revokeCalls' = {}
    /\ grantCalls' = {}
    /\ failedCalls' = {}
    /\ UNCHANGED <<cfgvars, teamMembers, teamInvited, files>>

----------------------------------------------------------------------------
\* Initial states

NodeUniverse ==
    {Node("alice", "User", 10, FALSE, "PUBLIC"),
     Node("alice", "User", 3, FALSE, "PRIVATE"),
     Node("acme", "Organization", 5, FALSE, "PUBLIC"),
     Node("acme", "Organization", 3, FALSE, "PUBLIC"),
     Node("bob", "User", 4, FALSE, "PRIVATE"),
     Node("zed", "User", 3, FALSE, "PUBLIC"),
     Node("carol", "User", 10, TRUE, "PUBLIC")}

BaseListing ==
    <<Node("alice", "User", 10, FALSE, "PUBLIC"),
      Node("acme", "Organization", 5, FALSE, "PUBLIC"),
      Node("zed", "User", 3, FALSE, "PUBLIC"),
      Node("bob", "User", 4, FALSE, "PRIVATE"),
      Node("carol", "User", 10, TRUE, "PUBLIC")>>

SeqsUpTo(S, n) == UNION {[1..k -> S] : k \in 0..n}

NoOrgUsers == [org \in {} |-> {}]

\* PRIVILEGED_USERS and ORG_USERS (lines 17-23); the first has the shape of
\* the source's values: one privileged handle, no organization entry
Configs ==
    {[privileged |-> {"zed"}, org_users |-> NoOrgUsers],
     [privileged |-> {"zed"}, org_users |-> [org \in {"acme"} |-> {"bob"}]],
     [privileged |-> {},      org_users |-> [org \in {"acme"} |-> {"bob", "carol"}]],
     [privileged |-> {"zed", "bob"},
      org_users |-> [org \in {"acme"} |-> {"bob", "carol"}]]}

\* largest confirmed-member and invitation listings of a team at the start
MaxMembers == 3
MaxInvited == 1

InitObserved ==
    /\ fetched = {}
    /\ revokeCalls = {}
    /\ grantCalls = {}
    /\ failedCalls = {}
    /\ run = 1
    /\ prev = [eligible_users |-> {}, eligible_orgs |-> {}, applied |-> FALSE,
               files |-> NoFiles]
    /\ log = <<>>

\* one target, as in the source (lines 14-16)
Init ==
    /\ INSIDERS_TEAMS = <<"t1">>
    /\ \E c \in Configs :
         /\ PRIVILEGED_USERS = c.privileged
         /\ ORG_USERS = c.org_users
    /\ \E k \in 0..Min(MaxSponsors, Len(BaseListing)) :
         sponsorships = SubSeq(BaseListing, 1, k)
    /\ \E S \in SUBSET {"alice", "bob", "carol", "zed"} :
         /\ Cardinality(S) <= MaxMembers
         /\ \E I \in SUBSET ({"alice", "carol"} \ S) :
              /\ Cardinality(I) <= MaxInvited
              /\ teamMembers = [t \in AllTeams |-> IF t = "t1" THEN Listing(S) ELSE <<>>]
              /\ teamInvited = [t \in AllTeams |-> IF t = "t1" THEN Listing(I) ELSE <<>>]
    /\ Start
    /\ files = NoFiles
    /\ InitObserved

Next ==
    \/ GetSponsorsPage
    \/ EligibleSets
    \/ AddPrivileged
    \/ AddOrgUsers
    \/ NextTeam
    \/ GetMembersPage
    \/ GetInvited
    \/ RevokeCall
    \/ RevokeDone
    \/ GrantCall
    \/ GrantDone
    \/ WriteNumbers
    \/ WriteRoster
    \/ NextRun

Spec == Init /\ [][Next]_vars

\* The eligibility computation alone, over every sponsorship listing of up to
\* MaxSponsors nodes
InitEligibility ==
    /\ INSIDERS_TEAMS = <<"t1">>
    /\ \E c \in Configs :
         /\ PRIVILEGED_USERS = c.privileged
         /\ ORG_USERS = c.org_users
    /\ sponsorships \in SeqsUpTo(NodeUniverse, MaxSponsors)
    /\ teamMembers = [t \in AllTeams |-> <<>>]
    /\ teamInvited = [t \in AllTeams |-> <<>>]
    /\ Start
    /\ files = NoFiles
    /\ InitObserved

NextEligibility ==
    \/ GetSponsorsPage
    \/ EligibleSets
    \/ AddPrivileged
    \/ AddOrgUsers

SpecEligibility == InitEligibility /\ [][NextEligibility]_vars

\* Two targets, one run; the invitation listing of the first may exceed a page
MaxPending == 3

InitTeams ==
    /\ INSIDERS_TEAMS = <<"t1", "t2">>
    /\ PRIVILEGED_USERS = {"zed"}
    /\ ORG_USERS = NoOrgUsers
    /\ sponsorships = SubSeq(BaseListing, 1, 1)
    /\ \E S1 \in SUBSET {"alice", "carol"}, S2 \in {{}, {"carol"}, {"bob", "zed"}} :
         \E I1 \in SUBSET ({"acme", "bob", "carol", "zed"} \ S1) :
            /\ Cardinality(I1) <= MaxPending
            /\ teamMembers = [t \in AllTeams |-> IF t = "t1" THEN Listing(S1) ELSE Listing(S2)]
            /\ teamInvited = [t \in AllTeams |-> IF t = "t1" THEN Listing(I1) ELSE <<>>]
    /\ Start
    /\ files = NoFiles
    /\ InitObserved

NextOneRun ==
    \/ GetSponsorsPage
    \/ EligibleSets
    \/ AddPrivileged
    \/ AddOrgUsers
    \/ NextTeam
    \/ GetMembersPage
    \/ GetInvited
    \/ RevokeCall
    \/ RevokeDone
    \/ GrantCall
    \/ GrantDone
    \/ WriteNumbers
    \/ WriteRoster

SpecTeams == InitTeams /\ [][NextOneRun]_vars

\* the nodes of the listings of SpecReport: a one-time payment of an
\* organization is among them
ReportUniverse ==
    NodeUniverse \cup {Node("acme", "Organization", 5, TRUE, "PRIVATE")}

\* The sponsor fetch, the eligibility sets and the report files over every
\* sponsorship listing of up to MaxSponsors nodes, with no target configured
InitReport ==
    /\ INSIDERS_TEAMS = <<>>
    /\ \E c \in Configs :
         /\ PRIVILEGED_USERS = c.privileged
         /\ ORG_USERS = c.org_users
    /\ sponsorships \in SeqsUpTo(ReportUniverse, MaxSponsors)
    /\ teamMembers = [t \in AllTeams |-> <<>>]
    /\ teamInvited = [t \in AllTeams |-> <<>>]
    /\ Start
    /\ files = NoFiles
    /\ InitObserved

NextReport ==
    \/ GetSponsorsPage
    \/ EligibleSets
    \/ AddPrivileged
    \/ AddOrgUsers
    \/ NextTeam
    \/ WriteNumbers
    \/ WriteRoster

SpecReport == InitReport /\ [][NextReport]_vars

----------------------------------------------------------------------------
\* Properties

\* the loops of lines 208-214 of the current target have both run to their end
TargetDone == pc \in {"team", "numbers", "roster", "done"} /\ ti >= 1

\* the snapshot of line 206 of the current target has been taken
SnapshotTaken ==
    \/ pc \in {"revoke", "grant"}
    \/ TargetDone
    \/ pc = "raised" /\ raised \in {"revoke", "grant"}

\* lines 199-203 have run in the current run
EligibilityComputed ==
    \/ pc \in {"team", "get_members", "get_invited", "revoke", "grant",
               "numbers", "roster", "done"}
    \/ pc = "raised" /\ raised # "get_sponsors"

\* C1: when get_members returns, the returned set is the union of the handles
\* of every page it fetched.
C1_GetMembersReturnsUnion ==
    pc = "get_invited" => got_members = fetched

\* C2: a non-success response to a grant or revoke call never raises, so the
\* loops of lines 208-214 are never left by an exception of grant or revoke.
C2_MutationFailureNeverRaises ==
    raised \notin {"grant", "revoke"}

\* C3, its state part: the calls made so far, and those still to make, are
\* within the two differences of the snapshot and the eligibility set.
C3_CallsWithinFixedSets ==
    /\ SnapshotTaken =>
         /\ revokeCalls \subseteq members \ eligible_users
         /\ grantCalls \subseteq eligible_users \ members
    /\ pc = "revoke" =>
         /\ revokeCalls \cup ToRevoke = members \ eligible_users
         /\ grantCalls = {}
    /\ pc = "grant" =>
         /\ revokeCalls = members \ eligible_users
         /\ grantCalls \cup ToGrant = eligible_users \ members
    /\ TargetDone =>
         /\ revokeCalls = members \ eligible_users
         /\ grantCalls = eligible_users \ members

\* C3, its step parts: no re-read while applying; one snapshot, taken before
\* any call of the target.
C3_NoReRead ==
    pc \in {"revoke", "grant"} =>
        /\ members' = members
        /\ eligible_users' = eligible_users
        /\ pc' \notin {"get_members", "get_invited"}

C3_OneSnapshot ==
    (pc = "get_invited" /\ pc' = "revoke") =>
        /\ members' = got_members \cup Range(ListingPage(teamInvited[Team], 1))
        /\ revokeCalls' = {}
        /\ grantCalls' = {}

\* C3: the handles revoke is called on are exactly members - eligible_users
\* and the handles grant is called on are exactly eligible_users - members,
\* members being got_members | get_invited as read before the target's first
\* mutation; from the first call to the last neither members nor
\* eligible_users changes and no listing is fetched.
C3_SnapshotFixesBothSets ==
    /\ []C3_CallsWithinFixedSets
    /\ [][C3_NoReRead]_vars
    /\ [][C3_OneSnapshot]_vars

C3_Witness ==
    /\ TargetDone
    /\ revokeCalls # {}
    /\ grantCalls # {}

\* C4: a run that follows a run whose calls the provider all applied, with the
\* same eligibility set, issues no revoke and no grant call.
C4_SecondRunIssuesNoCall ==
    (run >= 2 /\ prev.applied /\ SnapshotTaken
        /\ prev.eligible_users = eligible_users) =>
      /\ members \ eligible_users = {}
      /\ eligible_users \ members = {}
      /\ revokeCalls = {}
      /\ grantCalls = {}

\* C5: grant is never called for a handle seen on any page of the member
\* listing or in the invitation page of the target's snapshot.
C5_NoGrantToListedHandle ==
    SnapshotTaken => grantCalls \cap (fetched \cup members) = {}

\* the Sponsor records of the fetched list
SponsorRecords == Range(sponsors)

\* the individual / organization handles with a record at or above the threshold
QualifyingIndividuals ==
    {s.account.name : s \in {x \in SponsorRecords :
        ~x.account.org /\ x.amount >= MIN_AMOUNT}}

QualifyingOrgs ==
    {s.account.name : s \in {x \in SponsorRecords :
        x.account.org /\ x.amount >= MIN_AMOUNT}}

\* the handles ORG_USERS lists under org (none for an org it has no entry for)
ListedUnder(org) == IF org \in DOMAIN ORG_USERS THEN ORG_USERS[org] ELSE {}

\* C6: the eligibility set used for reconciliation is the union of the
\* individual accounts at or above MIN_AMOUNT, the privileged set and the
\* expansion sets of the organization accounts at or above MIN_AMOUNT; an
\* eligible organization's own handle is in it only on one of those grounds.
C6_EligibilityIsTheUnion ==
    EligibilityComputed =>
      /\ eligible_users =
            QualifyingIndividuals \cup PRIVILEGED_USERS
              \cup UNION {ListedUnder(org) : org \in QualifyingOrgs}
      /\ \A org \in QualifyingOrgs :
            org \in eligible_users =>
               \/ org \in QualifyingIndividuals
               \/ org \in PRIVILEGED_USERS
               \/ \E o \in QualifyingOrgs : org \in ListedUnder(o)

C6_Witness ==
    /\ EligibilityComputed
    /\ \E org \in QualifyingOrgs :
         /\ ListedUnder(org) # {}
         /\ org \notin eligible_users
    /\ QualifyingIndividuals # {}
    /\ PRIVILEGED_USERS # {}

\* the inputs of the end-to-end scenario of the specification, section 8
C7_Scenario ==
    /\ sponsors = <<[account |-> [name |-> "alice", org |-> FALSE],
                     private |-> FALSE, amount |-> 10],
                    [account |-> [name |-> "acme", org |-> TRUE],
                     private |-> FALSE, amount |-> 5]>>
    /\ ORG_USERS = [org \in {"acme"} |-> {"bob"}]
    /\ PRIVILEGED_USERS = {"zed"}
    /\ MIN_AMOUNT = 4
    /\ members = {"zed", "carol"}
    /\ TargetDone

\* C7 as stated: the scenario ends with grant called on alice, acme and bob
\* and revoke called on carol.
C7_ScenarioAsStated ==
    C7_Scenario =>
      /\ grantCalls = {"alice", "acme", "bob"}
      /\ revokeCalls = {"carol"}

\* C7, amended: the scenario ends with grant called on alice and bob only (not
\* on the organization acme) and revoke called on carol.
C7_ScenarioOutcome ==
    C7_Scenario =>
      /\ grantCalls = {"alice", "bob"}
      /\ revokeCalls = {"carol"}

C7_Witness ==
    /\ C7_Scenario
    /\ "carol" \in revokeCalls
    /\ "bob" \in grantCalls

\* lines 199-200 have just run: eligible_users holds the direct sponsors only
DirectSetsComputed == pc = "privileged"

DirectSet(s) == IF s.account.org THEN eligible_orgs ELSE eligible_users

\* C8 as stated: for every Sponsor record, amount >= MIN_AMOUNT iff its handle
\* is in the sets of lines 199-200.
C8_ThresholdPerRecord ==
    DirectSetsComputed =>
      \A s \in SponsorRecords :
         s.amount >= MIN_AMOUNT <=> s.account.name \in eligible_orgs \cup eligible_users

\* C8, amended: every record at or above MIN_AMOUNT has its handle in the set of
\* its account type, and every handle of eligible_users / eligible_orgs has
\* some record of that type at or above MIN_AMOUNT (a record below the
\* threshold does not exclude a handle that another record qualifies).
C8_ThresholdPerHandle ==
    DirectSetsComputed =>
      /\ \A s \in SponsorRecords :
            s.amount >= MIN_AMOUNT => s.account.name \in DirectSet(s)
      /\ \A h \in eligible_users :
            \E s \in SponsorRecords :
               s.account.name = h /\ ~s.account.org /\ s.amount >= MIN_AMOUNT
      /\ \A h \in eligible_orgs :
            \E s \in SponsorRecords :
               s.account.name = h /\ s.account.org /\ s.amount >= MIN_AMOUNT

C8_Witness ==
    /\ DirectSetsComputed
    /\ \E s, t \in SponsorRecords :
         /\ s.account.name = t.account.name
         /\ s.amount >= MIN_AMOUNT
         /\ t.amount < MIN_AMOUNT
         /\ s.account.name \in eligible_users
    /\ \E s \in SponsorRecords : s.amount = MIN_AMOUNT

\* C9: every privileged handle is in the eligibility set whatever the sponsor
\* list; revoke is never called on a privileged handle, and when the loops of
\* a target have run to their end grant has been called on every privileged
\* handle that is not in the snapshot.
C9_PrivilegedOverride ==
    /\ (EligibilityComputed \/ pc = "org_users") =>
          PRIVILEGED_USERS \subseteq eligible_users
    /\ revokeCalls \cap PRIVILEGED_USERS = {}
    /\ TargetDone => PRIVILEGED_USERS \ members \subseteq grantCalls

C9_Witness ==
    /\ TargetDone
    /\ \E h \in PRIVILEGED_USERS :
         /\ h \in grantCalls
         /\ \E s \in SponsorRecords : s.account.name = h /\ s.amount < MIN_AMOUNT
    /\ \E h \in PRIVILEGED_USERS :
         /\ h \in grantCalls
         /\ \A s \in SponsorRecords : s.account.name # h

----------------------------------------------------------------------------
\* Properties of the requests issued

Fetches == {"get_sponsors", "get_members", "get_invited"}
Mutations == {"revoke", "grant"}

\* the positions of the log holding a request of one of `ops`
Positions(ops) == {i \in 1..Len(log) : log[i].op \in ops}

\* the recurring nodes of the provider's whole listing, as Sponsor records
RECURSIVE AllRecurring(_)
AllRecurring(listing) ==
    IF listing = <<>> THEN <<>>
    ELSE (IF Head(listing).isOneTimePayment THEN <<>>
          ELSE <<[account |-> [name |-> Head(listing).login,
                               org  |-> Head(listing).typename = "Organization"],
                  private |-> Head(listing).privacyLevel = "PRIVATE",
                  amount  |-> Head(listing).amount]>>)
         \o AllRecurring(Tail(listing))

\* C11, its state part: a run ended by a fetch ended at that very request and
\* wrote no file; a mutation is only ever issued with the complete sponsor list.
C11_AbortedAtTheFetch ==
    /\ (pc = "raised" /\ raised \in Fetches) =>
          /\ log # <<>>
          /\ log[Len(log)].op = raised
          /\ Positions({"write"}) = {}
          /\ files = prev.files
    /\ (pc = "raised" /\ raised = "get_sponsors") =>
          /\ eligible_users = {}
          /\ eligible_orgs = {}
          /\ Positions(Mutations) = {}
    /\ Positions(Mutations) # {} => sponsors = AllRecurring(sponsorships)

\* C11, its step part: nothing follows the exception.
C11_NothingAfterRaise ==
    pc = "raised" => UNCHANGED vars

\* C11: a non-success response on any fetch ends the run at once: no request
\* is issued after it, no eligibility set built from a partial sponsor list is
\* used for a mutation, and neither report file is written.
C11_FetchFailureAbortsRun ==
    /\ []C11_AbortedAtTheFetch
    /\ [][C11_NothingAfterRaise]_vars

C11_Witness ==
    /\ pc = "raised"
    /\ raised = "get_sponsors"
    /\ sponsors # <<>>
    /\ sponsors # AllRecurring(sponsorships)
    /\ run = 2
    /\ files # NoFiles

\* the run has ended: main returned or an exception left it
RunEnded == pc \in {"done", "raised"}

\* C12: a run that no fetch ended reaches normal completion whatever grant and
\* revoke calls failed: every target was reconciled and both files were written.
C12_MutationFailureNotEscalated ==
    (RunEnded /\ raised \notin Fetches) =>
        /\ pc = "done"
        /\ ti = Len(INSIDERS_TEAMS)
        /\ {log[i].arg : i \in Positions({"write"})} =
              {"numbers.json", "sponsors.json"}

----------------------------------------------------------------------------
\* Properties of the report files

\* the provider's listing without its one-time payments
Recurring == SelectSeq(sponsorships, LAMBDA n : ~n.isOneTimePayment)

RECURSIVE TotalOf(_)
TotalOf(listing) ==
    IF listing = <<>> THEN 0 ELSE Head(listing).amount + TotalOf(Tail(listing))

\* the roster entries of a listing, in its order
EntriesOf(listing) ==
    [i \in 1..Len(listing) |->
        [name |-> listing[i].login, org |-> listing[i].typename = "Organization"]]

\* C13: the eligibility set, the total and count of numbers.json and the roster
\* of sponsors.json are those of the listing without its one-time records,
\* whatever the amount, privacy level and account type of a one-time record.
C13_OneTimeExcluded ==
    /\ EligibilityComputed =>
          eligible_users =
             {n.login : n \in {x \in Range(Recurring) :
                  x.typename = "User" /\ x.amount >= MIN_AMOUNT}}
             \cup PRIVILEGED_USERS
             \cup UNION {ListedUnder(n.login) : n \in {x \in Range(Recurring) :
                  x.typename = "Organization" /\ x.amount >= MIN_AMOUNT}}
    /\ pc = "done" =>
          /\ files["numbers.json"] =
                <<[total |-> TotalOf(Recurring), count |-> Len(Recurring)]>>
          /\ files["sponsors.json"] =
                <<EntriesOf(SelectSeq(Recurring,
                               LAMBDA n : n.privacyLevel # "PRIVATE"))>>

C13_Witness ==
    /\ pc = "done"
    /\ Recurring # <<>>
    /\ \E n \in Range(sponsorships) :
          /\ n.isOneTimePayment
          /\ n.typename = "User"
          /\ n.amount >= MIN_AMOUNT
          /\ n.login \notin eligible_users
    /\ \E n \in Range(sponsorships) :
          /\ n.isOneTimePayment
          /\ n.typename = "Organization"
          /\ n.amount >= MIN_AMOUNT
          /\ ListedUnder(n.login) # {}
          /\ ListedUnder(n.login) \cap eligible_users = {}

\* the Sponsor records that are not private, in the order of the list
PublicSponsors == SelectSeq(sponsors, LAMBDA sp : ~sp.private)

\* C14: sponsors.json holds one entry per Sponsor record that is not private,
\* in order, and none for a private one; numbers.json counts and sums every
\* Sponsor record, private or not; a private record makes its handle (or the
\* handles listed under its organization) eligible like a public one.
C14_PrivacyFiltering ==
    /\ pc = "done" =>
          /\ sponsors = AllRecurring(sponsorships)
          /\ files["sponsors.json"] =
                <<[i \in 1..Len(PublicSponsors) |->
                     [name |-> PublicSponsors[i].account.name,
                      org  |-> PublicSponsors[i].account.org]]>>
          /\ files["numbers.json"] =
                <<[total |-> TotalOf(sponsors), count |-> Len(sponsors)]>>
    /\ EligibilityComputed =>
          \A sp \in SponsorRecords :
             (sp.private /\ sp.amount >= MIN_AMOUNT) =>
                IF sp.account.org
                THEN ListedUnder(sp.account.name) \subseteq eligible_users
                ELSE sp.account.name \in eligible_users

C14_Witness ==
    /\ pc = "done"
    /\ PublicSponsors # <<>>
    /\ \E sp \in SponsorRecords :
          /\ sp.private
          /\ sp.amount >= MIN_AMOUNT
          /\ sp.account.name \notin PRIVILEGED_USERS
          /\ sp.account.name \in eligible_users
          /\ \A i \in 1..Len(files["sponsors.json"][1]) :
                files["sponsors.json"][1][i].name # sp.account.name
          /\ files["numbers.json"][1].total >= sp.amount + MIN_AMOUNT

----------------------------------------------------------------------------
\* Properties of the pagination

\* the member-page requests issued for the current target, in order
MembersRequests ==
    SelectSeq(log, LAMBDA e : e.op = "get_members" /\ e.team = Team)

\* the length of page k of the current target's member listing
MembersPageLen(k) == Len(ListingPage(teamMembers[Team], k))

\* C15: get_members requests pages 1, 2, 3, ... in this order; every page
\* before the last one requested was full; it goes on after a full page and
\* it has returned exactly when the last page requested was a short one.
C15_PageNumberPagination ==
    pc \in {"get_members", "get_invited"} =>
        LET n == Len(MembersRequests) IN
        /\ \A k \in 1..n : MembersRequests[k].arg = k
        /\ \A k \in 1..(n - 1) : MembersPageLen(k) = PER_PAGE
        /\ pc = "get_members" =>
              /\ page = n + 1
              /\ n >= 1 => MembersPageLen(n) = PER_PAGE
        /\ pc = "get_invited" =>
              /\ n >= 1
              /\ MembersPageLen(n) < PER_PAGE

C15_Witness ==
    /\ pc = "get_invited"
    /\ Len(MembersRequests) = 2
    /\ MembersPageLen(1) = PER_PAGE
    /\ MembersPageLen(2) = 0

\* the `after:` literals of the sponsor requests issued in this run, in order
SponsorsRequests == SelectSeq(log, LAMBDA e : e.op = "get_sponsors")

\* the provider's response to the k-th sponsor request
SponsorsResponseTo(k) == SponsorsResponse(sponsorships, SponsorsRequests[k].arg)

\* the nodes of the responses to the first k sponsor requests, in order
RECURSIVE NodesUpTo(_)
NodesUpTo(k) ==
    IF k = 0 THEN <<>> ELSE NodesUpTo(k - 1) \o SponsorsResponseTo(k).nodes

\* get_sponsors has returned in this run
SponsorsReturned == pc # "get_sponsors" /\ raised # "get_sponsors"

\* C16: the first sponsor request passes the literal null; each later one
\* follows a response with hasNextPage true and passes that response's
\* endCursor as a string literal; get_sponsors returns at the first response
\* with hasNextPage false, and what it returns is the recurring items of the
\* pages fetched, in page and item order, every record of a handle kept.
C16_CursorPagination ==
    LET n == Len(SponsorsRequests) IN
    /\ n >= 1 => SponsorsRequests[1].arg = <<"null">>
    /\ \A k \in 1..(n - 1) :
          /\ SponsorsResponseTo(k).hasNextPage
          /\ SponsorsRequests[k + 1].arg =
                <<"\"", SponsorsResponseTo(k).endCursor, "\"">>
    /\ (pc = "get_sponsors" /\ n >= 1) =>
          /\ SponsorsResponseTo(n).hasNextPage
          /\ sponsors = AllRecurring(NodesUpTo(n))
    /\ SponsorsReturned =>
          /\ n >= 1
          /\ ~SponsorsResponseTo(n).hasNextPage
          /\ sponsors = AllRecurring(NodesUpTo(n))
          /\ NodesUpTo(n) = sponsorships

C16_Witness ==
    /\ SponsorsReturned
    /\ Len(SponsorsRequests) = 2
    /\ Len(sponsors) = 3
    /\ sponsors[1].account.name = sponsors[3].account.name
    /\ sponsors[1].account.name # sponsors[2].account.name

----------------------------------------------------------------------------
\* Properties of the order of the requests

\* the position of a target in INSIDERS_TEAMS
TeamIndex(t) == CHOOSE k \in 1..Len(INSIDERS_TEAMS) : INSIDERS_TEAMS[k] = t

\* the place of a request in the pipeline: the sponsor fetch, then target by
\* target members, invitations, revokes, grants, then the files
Rank(e) ==
    CASE e.op = "get_sponsors" -> 0
      [] e.op = "get_members"  -> 10 * TeamIndex(e.team) + 1
      [] e.op = "get_invited"  -> 10 * TeamIndex(e.team) + 2
      [] e.op = "revoke"       -> 10 * TeamIndex(e.team) + 3
      [] e.op = "grant"        -> 10 * TeamIndex(e.team) + 4
      [] e.op = "write"        -> 10 * (Len(INSIDERS_TEAMS) + 1)

\* a request `op` for target t was issued before position i
IssuedBefore(op, t, i) ==
    \E j \in 1..(i - 1) : log[j].op = op /\ log[j].team = t

\* C17: the requests of a run are issued in pipeline order; anything but a
\* sponsor request comes after the last sponsor page; a target's revoke and
\* grant calls come after both of its fetches; the fetch of a target comes
\* after the fetches of the target before it; the files come after the fetches
\* of every target.
C17_LinearPipeline ==
    /\ \A i \in 1..(Len(log) - 1) : Rank(log[i]) <= Rank(log[i + 1])
    /\ \A i \in 1..Len(log) :
          /\ log[i].op # "get_sponsors" =>
                /\ SponsorsRequests # <<>>
                /\ ~SponsorsResponseTo(Len(SponsorsRequests)).hasNextPage
          /\ log[i].op \in Mutations =>
                /\ IssuedBefore("get_members", log[i].team, i)
                /\ IssuedBefore("get_invited", log[i].team, i)
          /\ (log[i].op = "get_members" /\ TeamIndex(log[i].team) > 1) =>
                IssuedBefore("get_invited",
                             INSIDERS_TEAMS[TeamIndex(log[i].team) - 1], i)
          /\ log[i].op = "write" =>
                \A t \in Range(INSIDERS_TEAMS) :
                   /\ IssuedBefore("get_members", t, i)
                   /\ IssuedBefore("get_invited", t, i)

C17_Witness ==
    /\ pc = "done"
    /\ \A t \in Range(INSIDERS_TEAMS) :
          /\ \E i \in Positions({"revoke"}) : log[i].team = t
          /\ \E i \in Positions({"grant"}) : log[i].team = t
    /\ Cardinality(Positions({"write"})) = 2

----------------------------------------------------------------------------
\* Properties of the invitation fetch

\* the invitation requests issued for target t in this run
InvitedRequests(t) ==
    SelectSeq(log, LAMBDA e : e.op = "get_invited" /\ e.team = t)

\* the snapshot of the current target was just taken: no call was made yet, so
\* the provider's listings are those the fetches read
SnapshotFresh == pc = "revoke" /\ revokeCalls = {} /\ revoke_iter = members

\* the pending invitations of the current target, as the provider lists them
Pending == teamInvited[Team]

\* C18: at most one invitation request is issued per target, for the first
\* page; the snapshot is what get_members returned together with the handles
\* of that page, so a handle invited beyond the first page is in the snapshot
\* only if get_members returned it.
C18_InvitedFirstPageOnly ==
    /\ \A t \in Range(INSIDERS_TEAMS) :
          /\ Len(InvitedRequests(t)) <= 1
          /\ \A k \in 1..Len(InvitedRequests(t)) : InvitedRequests(t)[k].arg = 1
    /\ SnapshotFresh =>
          /\ Len(InvitedRequests(Team)) = 1
          /\ members = got_members \cup
                {Pending[k] : k \in 1..Min(PER_PAGE, Len(Pending))}
          /\ \A k \in (PER_PAGE + 1)..Len(Pending) :
                Pending[k] \in members => Pending[k] \in got_members

C18_Witness ==
    /\ SnapshotFresh
    /\ Len(Pending) > PER_PAGE
    /\ Pending[PER_PAGE + 1] \notin members
    /\ Pending[1] \in members

----------------------------------------------------------------------------
\* Properties of the calls of one target

\* C19: the handles revoked and the handles granted for a target are disjoint,
\* and no (target, handle) has two grant or revoke calls in a run.
C19_AtMostOneCallPerHandle ==
    /\ revokeCalls \cap grantCalls = {}
    /\ \A i, j \in Positions(Mutations) :
          (log[i].team = log[j].team /\ log[i].arg = log[j].arg) => i = j

C19_Witness ==
    /\ TargetDone
    /\ revokeCalls # {}
    /\ Cardinality(grantCalls) >= 2
    /\ Cardinality(Positions(Mutations)) =
          Cardinality(revokeCalls) + Cardinality(grantCalls)

----------------------------------------------------------------------------
\* Properties of a run over several targets

\* the handles the provider lists for target t, confirmed or pending
ListedAt(t) == Range(teamMembers[t]) \cup Range(teamInvited[t])

\* the calls of this run that the provider answered with success
AppliedCalls ==
    {i \in Positions(Mutations) : <<log[i].team, log[i].arg>> \notin failedCalls}

\* C20, its state part: every call of every target is decided by the one
\* eligibility set of lines 199-203; a call that succeeded stays in the
\* provider's state whatever happens later in the run; a run ended by the
\* fetch of a target has issued nothing for that target but fetches, nothing
\* for the targets after it, and has written no file.
C20_SameSetNoRollback ==
    /\ Positions(Fetches \ {"get_sponsors"}) \cup Positions(Mutations) # {} =>
          eligible_users =
             QualifyingIndividuals \cup PRIVILEGED_USERS
                \cup UNION {ListedUnder(org) : org \in QualifyingOrgs}
    /\ \A i \in Positions({"revoke"}) : log[i].arg \notin eligible_users
    /\ \A i \in Positions({"grant"}) : log[i].arg \in eligible_users
    /\ \A i \in AppliedCalls :
          IF log[i].op = "revoke"
          THEN log[i].arg \notin ListedAt(log[i].team)
          ELSE log[i].arg \in ListedAt(log[i].team)
    /\ (pc = "raised" /\ raised \in {"get_members", "get_invited"}) =>
          /\ \A i \in Positions(Mutations) : TeamIndex(log[i].team) < ti
          /\ \A i \in Positions(Fetches \ {"get_sponsors"}) :
                TeamIndex(log[i].team) <= ti
          /\ Positions({"write"}) = {}
          /\ files = prev.files

\* C20, its step part: the eligibility set does not change once the first
\* target has been entered.
C20_SetFixedOverTargets ==
    ti >= 1 => eligible_users' = eligible_users

\* C20: all targets are reconciled against the eligibility set computed before
\* the first of them, and when the fetch of a later target fails the calls
\* already applied stay applied, the remaining targets are not reconciled and
\* no file is written.
C20_SeveralTargets ==
    /\ []C20_SameSetNoRollback
    /\ [][C20_SetFixedOverTargets]_vars

C20_Witness ==
    /\ pc = "raised"
    /\ raised \in {"get_members", "get_invited"}
    /\ ti = 2
    /\ \E i \in AppliedCalls : log[i].op = "revoke" /\ log[i].team = INSIDERS_TEAMS[1]
    /\ \E i \in AppliedCalls : log[i].op = "grant" /\ log[i].team = INSIDERS_TEAMS[1]

====
